---- MODULE Spec2Model ----
(***************************************************************************)
(* A068994/main.c: search for n such that 2^n has only even digits.       *)
(* Four OpenMP threads each keep the last DIGITS decimal digits of a      *)
(* power of two in a little-endian int array, multiply it by 16 per step  *)
(* (times16), print it with one putchar per digit when every digit is     *)
(* even, and printf a progress line after every BATCH steps.              *)
(*                                                                         *)
(* DIGITS and BATCH are the program's global variables (40 and 10^9 in    *)
(* the source); here they are drawn from 1..MaxDigits and 1..MaxBatch.    *)
(* omp_get_max_threads() is the environment's OMP_NUM_THREADS, drawn from *)
(* 1..MaxThreads; the team of the parallel region is chosen by the        *)
(* OpenMP runtime and may be smaller (OMP_THREAD_LIMIT, dynamic           *)
(* adjustment).  The endless while(1) loop is cut after MaxSteps          *)
(* multiplications per thread.                                            *)
(***************************************************************************)
EXTENDS Integers, Sequences, FiniteSets, TLC

\* ---- bounds of the model ------------------------------------------------
MaxDigits  == 4
MaxBatch   == 2
MaxThreads == 5
MaxSteps   == 2
MaxFnDigits == 4

\* ---- program constant: assert(omp_get_max_threads() == 4) ---------------
NUM_THREADS == 4

VARIABLES
    DIGITS,      \* int DIGITS (global)
    BATCH,       \* long long BATCH (global)
    nthreads,    \* omp_get_max_threads(): the most threads a team may have
    team,        \* omp_get_num_threads() inside the parallel region (0 before it)
    mainpc,      \* main: "assert" | "parallel" | "aborted"
    pc,          \* per thread: "none" | "start" | "loop" | "print"
    tail,        \* per thread: int tail[DIGITS], as a sequence (tail[i] is at i+1)
    steps,       \* per thread: long long steps
    i,           \* per thread: the batch loop's int i
    j,           \* per thread: the print loop's int j inside times16
    written,     \* per thread: what this thread has passed to stdout, line by line
    stdoutLine,  \* stdout: the characters written after the last newline
    arg,         \* the buffer given to a stand-alone call of times16
    res          \* what that call left: [tail, good, out]

vars == <<DIGITS, BATCH, nthreads, team, mainpc, pc, tail, steps, i, j, written,
          stdoutLine, arg, res>>

Tids == 0 .. (MaxThreads - 1)

\* ---- times16: the multiplication loop -----------------------------------

\* (mutant: `good =` for `good &=`)
AndEvenLast(good, digit) == IF digit % 2 = 0 THEN 1 ELSE 0

\* (mutant: a zero digit does not count as even)
AndEvenNonzero(good, digit) ==
    IF good = 1 /\ digit % 2 = 0 /\ digit # 0 THEN 1 ELSE 0

\* good &= (digit % 2 == 0), on the ints 0 and 1
AndEven(good, digit) == IF good = 1 /\ digit % 2 = 0 THEN 1 ELSE 0

\* (mutant: the x10 term, next_carry = tail[i], is left out)
NextCarryNoShift(old, t6) == t6 \div 10

\* next_carry = tail[i]; ...; next_carry += tail[i] / 10
NextCarry(old, t6) == old + (t6 \div 10)

\* (mutant: tail[i] %= 10 is left out)
StoredDigitNoMod(t6) == t6

\* tail[i] %= 10
StoredDigit(t6) == t6 % 10

RECURSIVE Times16Loop(_, _, _, _, _)
Times16Loop(buf, n, k, carry, good) ==
    IF k >= n THEN [tail |-> buf, good |-> good]
    ELSE LET old   == buf[k + 1]
             t6    == old * 6 + carry
             digit == StoredDigit(t6)
         IN  Times16Loop([buf EXCEPT ![k + 1] = digit], n, k + 1,
                         NextCarry(old, t6), AndEven(good, digit))

\* putchar(tail[j] + '0')
DigitChar(d) == <<"0", "1", "2", "3", "4", "5", "6", "7", "8", "9">>[d + 1]

\* for (j = DIGITS - 1; j >= 0; j--) putchar(tail[j] + '0');  putchar('\n');
PrintTail(buf, n) == [k \in 1 .. n |-> DigitChar(buf[n - k + 1])] \o <<"\n">>

\* One whole call of times16 on a buffer of n = DIGITS digits.
times16(buf, n) ==
    LET r == Times16Loop(buf, n, 0, 0, 1)
    IN  [tail |-> r.tail, good |-> r.good,
         out  |-> IF r.good # 0 THEN PrintTail(r.tail, n) ELSE << >>]

\* ---- main: the parallel region -------------------------------------------

\* assert(omp_get_max_threads() == 4)
AssertOk(n) == n = NUM_THREADS

\* (mutant: the doubling loop runs once too often, i <= omp_get_thread_num())
DoubledOnceMore(v, k) == v * (2 ^ (k + 1))

RECURSIVE Doubled(_, _)
\* for (i = 0; i < omp_get_thread_num(); i++) tail[0] *= 2;   (k rounds left)
Doubled(v, k) == IF k <= 0 THEN v ELSE Doubled(v * 2, k - 1)

\* (mutant: the doubling loop is left out, every thread starts from 1)
SeedTailNoDoubling(t, n) == [k \in 1 .. n |-> IF k = 1 THEN 1 ELSE 0]

\* memset(tail, 0, sizeof(tail)); tail[0] = 1; then the doubling loop
SeedTail(t, n) == [k \in 1 .. n |-> IF k = 1 THEN Doubled(1, t) ELSE 0]

\* #pragma omp parallel: the team sizes the runtime may choose, at most
\* omp_get_max_threads() and at least the encountering thread itself
TeamSizes(n) == 1 .. n

RECURSIVE Dec(_)
\* printf's %lld and %d of a non-negative number
Dec(n) == IF n < 10 THEN <<DigitChar(n)>>
          ELSE Dec(n \div 10) \o <<DigitChar(n % 10)>>

\* printf("Steps: %lld from %d\n", steps, omp_get_thread_num())
ProgressLine(s, t) ==
    <<"S", "t", "e", "p", "s", ":", " ">> \o Dec(s)
    \o <<" ", "f", "r", "o", "m", " ">> \o Dec(t) \o <<"\n">>

\* Whether a line has its newline.
Ended(l) == Len(l) > 0 /\ l[Len(l)] = "\n"

\* A thread's record of its own output after one more character.
Wrote(w, c) ==
    IF Len(w) > 0 /\ ~Ended(w[Len(w)])
    THEN [w EXCEPT ![Len(w)] = Append(@, c)]
    ELSE Append(w, <<c>>)

\* ... after a whole printf line
WroteLine(w, line) ==
    IF Len(w) > 0 /\ ~Ended(w[Len(w)])
    THEN [w EXCEPT ![Len(w)] = @ \o line]
    ELSE Append(w, line)

\* (mutant: i <= BATCH)
InBatchInclusive(k, batch) == k <= batch

\* for (int i = 0; i < BATCH; i++)
InBatch(k, batch) == k < batch

\* (mutant: the outer loop ends after one batch)
AfterReportExit == "done"

\* where a thread goes after printf: while (1)
AfterReport == "loop"

NoRes == [tail |-> << >>, good |-> 0, out |-> << >>]

Init ==
    /\ DIGITS \in 1 .. MaxDigits
    /\ BATCH \in 1 .. MaxBatch
    /\ nthreads \in 1 .. MaxThreads
    /\ team = 0
    /\ mainpc = "assert"
    /\ pc = [t \in Tids |-> "none"]
    /\ tail = [t \in Tids |-> << >>]
    /\ steps = [t \in Tids |-> 0]
    /\ i = [t \in Tids |-> 0]
    /\ j = [t \in Tids |-> 0]
    /\ written = [t \in Tids |-> << >>]
    /\ stdoutLine = << >>
    /\ arg = << >>
    /\ res = NoRes

\* main, line 55-56: the assertion on omp_get_max_threads(), then the runtime
\* forms a team and its threads start
Startup ==
    /\ mainpc = "assert"
    /\ IF AssertOk(nthreads)
       THEN /\ mainpc' = "parallel"
            /\ \E n \in TeamSizes(nthreads) :
                  /\ team' = n
                  /\ pc' = [t \in Tids |-> IF t < n THEN "start" ELSE "none"]
       ELSE /\ mainpc' = "aborted"
            /\ pc' = pc
            /\ team' = team
    /\ UNCHANGED <<DIGITS, BATCH, nthreads, tail, steps, i, j, written,
                   stdoutLine, arg, res>>

\* lines 58-65: the thread's buffer and counter
Seed(t) ==
    /\ pc[t] = "start"
    /\ tail' = [tail EXCEPT ![t] = SeedTail(t, DIGITS)]
    /\ steps' = [steps EXCEPT ![t] = 0]
    /\ i' = [i EXCEPT ![t] = 0]
    /\ pc' = [pc EXCEPT ![t] = "loop"]
    /\ UNCHANGED <<DIGITS, BATCH, nthreads, team, mainpc, j, written,
                   stdoutLine, arg, res>>

\* lines 68-71 with 31-44: the call of times16 up to `if (good)`; when good is
\* 0 the call returns at once and steps++, i++ follow.
Multiply(t) ==
    /\ pc[t] = "loop"
    /\ InBatch(i[t], BATCH)
    /\ steps[t] < MaxSteps
    /\ LET r == Times16Loop(tail[t], DIGITS, 0, 0, 1)
       IN  /\ tail' = [tail EXCEPT ![t] = r.tail]
           /\ IF r.good # 0
              THEN /\ pc' = [pc EXCEPT ![t] = "print"]
                   /\ j' = [j EXCEPT ![t] = DIGITS - 1]
                   /\ UNCHANGED <<steps, i>>
              ELSE /\ steps' = [steps EXCEPT ![t] = @ + 1]
                   /\ i' = [i EXCEPT ![t] = @ + 1]
                   /\ UNCHANGED <<pc, j>>
    /\ UNCHANGED <<DIGITS, BATCH, nthreads, team, mainpc, written,
                   stdoutLine, arg, res>>

\* lines 46-48: one putchar of the print loop
PutDigit(t) ==
    /\ pc[t] = "print"
    /\ j[t] >= 0
    /\ LET c == DigitChar(tail[t][j[t] + 1])
       IN  /\ written' = [written EXCEPT ![t] = Wrote(written[t], c)]
           /\ stdoutLine' = Append(stdoutLine, c)
    /\ j' = [j EXCEPT ![t] = @ - 1]
    /\ UNCHANGED <<DIGITS, BATCH, nthreads, team, mainpc, pc, tail, steps, i,
                   arg, res>>

\* line 49, then the return to line 71: steps++ and the batch loop's i++
PutNewline(t) ==
    /\ pc[t] = "print"
    /\ j[t] < 0
    /\ written' = [written EXCEPT ![t] = Wrote(written[t], "\n")]
    /\ stdoutLine' = << >>
    /\ steps' = [steps EXCEPT ![t] = @ + 1]
    /\ i' = [i EXCEPT ![t] = @ + 1]
    /\ pc' = [pc EXCEPT ![t] = "loop"]
    /\ UNCHANGED <<DIGITS, BATCH, nthreads, team, mainpc, tail, j, arg, res>>

\* line 73: the batch loop is over; printf writes its line under the stream lock
Report(t) ==
    /\ pc[t] = "loop"
    /\ ~InBatch(i[t], BATCH)
    /\ LET line == ProgressLine(steps[t], t)
       IN  /\ written' = [written EXCEPT ![t] = WroteLine(written[t], line)]
           /\ stdoutLine' = << >>
    /\ i' = [i EXCEPT ![t] = 0]
    /\ pc' = [pc EXCEPT ![t] = AfterReport]
    /\ UNCHANGED <<DIGITS, BATCH, nthreads, team, mainpc, tail, steps, j, arg, res>>

Worker(t) ==
    \/ Seed(t)
    \/ Multiply(t)
    \/ PutDigit(t)
    \/ PutNewline(t)
    \/ Report(t)

Next ==
    \/ Startup
    \/ \E t \in Tids : Worker(t)

Spec == Init /\ [][Next]_vars

\* The runs with the widest digit window and the longest batch, under fair
\* scheduling: main and each thread of the team are scheduled by the operating
\* system and keep running.
InitFair == Init /\ DIGITS = MaxDigits /\ BATCH = MaxBatch

FairSpec ==
    /\ InitFair
    /\ [][Next]_vars
    /\ WF_vars(Startup)
    /\ \A t \in Tids : WF_vars(Worker(t))

\* ---- times16 alone, on every buffer of up to MaxFnDigits digits ----------

InitFn ==
    /\ DIGITS \in 1 .. MaxFnDigits
    /\ arg \in [1 .. DIGITS -> 0 .. 9]
    /\ res = NoRes
    /\ BATCH = 1
    /\ nthreads = NUM_THREADS
    /\ team = 0
    /\ mainpc = "assert"
    /\ pc = [t \in Tids |-> "none"]
    /\ tail = [t \in Tids |-> << >>]
    /\ steps = [t \in Tids |-> 0]
    /\ i = [t \in Tids |-> 0]
    /\ j = [t \in Tids |-> 0]
    /\ written = [t \in Tids |-> << >>]
    /\ stdoutLine = << >>

CallTimes16 ==
    /\ res = NoRes
    /\ res' = times16(arg, DIGITS)
    /\ UNCHANGED <<DIGITS, BATCH, nthreads, team, mainpc, pc, tail, steps, i, j,
                   written, stdoutLine, arg>>

NextFn == CallTimes16

SpecFn == InitFn /\ [][NextFn]_vars

\* ---- reference arithmetic, independent of the digit loop ------------------

Pow10(n) == 10 ^ n

RECURSIVE ValueFrom(_, _)
ValueFrom(buf, k) ==
    IF k > Len(buf) THEN 0 ELSE buf[k] + 10 * ValueFrom(buf, k + 1)

\* the number a little-endian digit sequence stands for
Value(buf) == ValueFrom(buf, 1)

\* the n-digit little-endian representation of v
Encode(v, n) == [k \in 1 .. n |-> (v \div Pow10(k - 1)) % 10]

\* 2^n mod m, the value the sequential search has at exponent n
Ref(n, m) == (2 ^ n) % m

\* v * 16^k mod m
Times16N(v, k, m) == (v * (16 ^ k)) % m

AllEven(buf) == \A k \in 1 .. Len(buf) : buf[k] % 2 = 0

\* v written with n decimal digits, zero-padded, most significant first, and a newline
ZeroPadded(v, n) ==
    [k \in 1 .. n |-> DigitChar((v \div Pow10(n - k)) % 10)] \o <<"\n">>

\* the complete lines thread t has written, of each kind
IsProgress(l) == Ended(l) /\ l[1] = "S"
IsMatch(l) == Ended(l) /\ l[1] # "S"
ProgressLinesOf(t) == SelectSeq(written[t], IsProgress)
MatchLinesOf(t) == SelectSeq(written[t], IsMatch)

\* the characters thread t writes in a step
WrittenNow(t) ==
    LET w == written'[t]
        n == Len(w)
        last == w[n]
    IN  IF n > Len(written[t]) THEN last
        ELSE SubSeq(last, Len(written[t][n]) + 1, Len(last))

Team == 0 .. (NUM_THREADS - 1)
Running(t) == pc[t] \in {"loop", "print"}

\* the times16 calls thread t has made (steps++ follows the call's return)
Applied(t) == steps[t] + (IF pc[t] = "print" THEN 1 ELSE 0)

\* the progress lines thread t has printed, by its counters
NumReports(t) ==
    (steps[t] \div BATCH) - (IF pc[t] = "loop" /\ i[t] >= BATCH THEN 1 ELSE 0)

DigitChars == {"0", "1", "2", "3", "4", "5", "6", "7", "8", "9"}

WholeMatchLine(l) ==
    /\ Len(l) = DIGITS + 1
    /\ l[DIGITS + 1] = "\n"
    /\ \A k \in 1 .. DIGITS : l[k] \in DigitChars

WholeProgressLine(l) ==
    \E s \in 0 .. MaxSteps, t \in Tids : l = ProgressLine(s, t)

RECURSIVE ExpectedMatches(_, _)
\* the match lines for the exponents t + 4k, k = 1 .. n, in order
ExpectedMatches(t, n) ==
    IF n <= 0 THEN << >>
    ELSE LET v == Ref(t + NUM_THREADS * n, Pow10(DIGITS))
         IN  ExpectedMatches(t, n - 1)
             \o (IF AllEven(Encode(v, DIGITS)) THEN <<ZeroPadded(v, DIGITS)>>
                 ELSE << >>)

\* ---- the claims -------------------------------------------------------------

\* C1: for every buffer of DIGITS >= 1 digits with value V, one call of times16
\* leaves the DIGITS-digit representation of (V * 16) mod 10^DIGITS; the last
\* carry is dropped.
C1_Times16IsTimes16Mod ==
    res # NoRes =>
        res.tail = Encode((Value(arg) * 16) % Pow10(DIGITS), DIGITS)

\* a one-digit buffer whose product overflows the window has been multiplied
C1_Witness ==
    /\ res # NoRes
    /\ DIGITS = 1
    /\ arg = <<7>>
    /\ res.tail = <<2>>

\* C2: a call of times16 writes one match line exactly when every digit of the
\* result is even (the flag is the AND of the digits' parities); the line is the
\* DIGITS digits from index DIGITS-1 down to 0 and a newline; otherwise nothing
\* is written.
C2_MatchLineIffAllEven ==
    res # NoRes =>
        /\ (res.good = 1) <=> AllEven(res.tail)
        /\ res.good \in {0, 1}
        /\ res.out = IF AllEven(res.tail)
                     THEN ZeroPadded(Value(res.tail), DIGITS)
                     ELSE << >>

\* a three-digit result with only even digits was printed most significant first
C2_Witness ==
    /\ res # NoRes
    /\ DIGITS = 3
    /\ arg = <<3, 1, 0>>
    /\ res.out = <<"2", "0", "8", "\n">>

\* C3: with a team of four, threads 0..3 all run, and after k calls of times16
\* thread t holds 2^n mod 10^DIGITS for n = t + 4k, the value of the sequential
\* reference at exponent n; n determines t = n % 4 and k = n \div 4, so the four
\* threads together visit each exponent once.
C3_ThreadsCoverExponents ==
    /\ team = NUM_THREADS => \A t \in Tids : (pc[t] # "none") <=> (t \in Team)
    /\ \A t \in Tids :
          Running(t) =>
              LET n == t + NUM_THREADS * Applied(t)
              IN  /\ n % NUM_THREADS = t
                  /\ n \div NUM_THREADS = Applied(t)
                  /\ Value(tail[t]) = Ref(n, Pow10(DIGITS))

\* thread 3 has made two calls and holds 2^11 = 2048; thread 0 holds 2^4 = 16
C3_Witness ==
    /\ DIGITS = 4
    /\ team = NUM_THREADS
    /\ pc[3] = "loop" /\ steps[3] = 2 /\ tail[3] = <<8, 4, 0, 2>>
    /\ pc[0] = "loop" /\ steps[0] = 1 /\ tail[0] = <<6, 1, 0, 0>>

\* C4: with a thread count other than 4 the program stops at the assertion: no
\* thread starts, seeds a buffer, multiplies or writes; with 4 the assertion
\* passes and all four threads start.
C4_StartupCheck ==
    /\ nthreads # NUM_THREADS =>
          /\ mainpc \in {"assert", "aborted"}
          /\ stdoutLine = << >>
          /\ \A t \in Tids :
                /\ pc[t] = "none"
                /\ tail[t] = << >>
                /\ steps[t] = 0
                /\ written[t] = << >>
    /\ (nthreads = NUM_THREADS /\ mainpc # "assert") =>
          /\ mainpc = "parallel"
          /\ \A t \in Team : pc[t] # "none"
          /\ \A t \in Tids \ Team : pc[t] = "none"

\* C5: every line completed on stdout is a whole match line or a whole progress
\* line: no thread's characters fall inside another thread's line.
C5_LinesAreWhole ==
    [][\A t \in Tids :
          (written'[t] # written[t] /\ stdoutLine' = << >>) =>
              LET line == stdoutLine \o WrittenNow(t)
              IN  WholeMatchLine(line) \/ WholeProgressLine(line)]_vars

\* C6: thread t's j-th progress line reads "Steps: j*BATCH from t"; it has
\* printed one for each full batch and none else; steps counts the calls of
\* times16, one per call.
C6_ProgressEveryBatch ==
    \A t \in Tids :
        /\ ProgressLinesOf(t)
              = [n \in 1 .. NumReports(t) |-> ProgressLine(n * BATCH, t)]
        /\ NumReports(t) >= 0
        /\ pc[t] = "loop" => steps[t] = BATCH * NumReports(t) + i[t]
        /\ Running(t) =>
              Value(tail[t])
                 = Times16N(Doubled(1, t), Applied(t), Pow10(DIGITS))

\* with BATCH = 1, thread 1 has printed its second progress line
C6_Witness ==
    /\ BATCH = 1
    /\ steps[1] = 2
    /\ ProgressLinesOf(1)
          = << <<"S", "t", "e", "p", "s", ":", " ", "1", " ",
                 "f", "r", "o", "m", " ", "1", "\n">>,
               <<"S", "t", "e", "p", "s", ":", " ", "2", " ",
                 "f", "r", "o", "m", " ", "1", "\n">> >>

\* C7: between calls every thread's buffer has DIGITS elements, each in 0..9,
\* and the seed tail[0] = 2^t is a single digit for t in 0..3.
C7_DigitsInRange ==
    \A t \in Tids :
        Running(t) =>
            /\ Len(tail[t]) = DIGITS
            /\ \A k \in 1 .. DIGITS : tail[t][k] \in 0 .. 9
            /\ (pc[t] = "loop" /\ steps[t] = 0) =>
                  /\ tail[t][1] = Ref(t, 16)
                  /\ \A k \in 2 .. DIGITS : tail[t][k] = 0

\* every thread has multiplied MaxSteps times; thread 3 started from 8
C7_Witness ==
    /\ DIGITS = MaxDigits
    /\ \A t \in Team : pc[t] = "loop" /\ steps[t] = MaxSteps

\* C8: once the assertion has passed no thread of the team stops: under fair
\* scheduling each goes on multiplying and reporting (the model follows it to
\* MaxSteps calls) and after its report is back in the loop for the next batch.
C8_ThreadsKeepRunning ==
    (mainpc = "parallel") ~>
        (\A t \in Tids :
            t < team =>
                steps[t] = MaxSteps /\ NumReports(t) >= 1 /\ pc[t] = "loop")

\* all four threads have made MaxSteps calls, reported, and are in the loop
C8_Witness ==
    /\ mainpc = "parallel"
    /\ team = NUM_THREADS
    /\ \A t \in Team :
          steps[t] = MaxSteps /\ NumReports(t) >= 1 /\ pc[t] = "loop"

\* C9: leading zeros count as even digits: a result with fewer than DIGITS
\* significant digits, all even, is printed zero-padded (2^6 = 64 by thread 2,
\* 2^11 = 2048 by thread 3).
C9_LeadingZerosMatch ==
    \A t \in Tids :
        (pc[t] = "loop" /\ steps[t] >= 1
           /\ tail[t][DIGITS] = 0 /\ AllEven(tail[t])) =>
            LET m == MatchLinesOf(t)
            IN  /\ Len(m) >= 1
                /\ m[Len(m)] = ZeroPadded(Value(tail[t]), DIGITS)

\* thread 2 has printed 0064 and thread 3 has printed 2048
C9_Witness ==
    /\ DIGITS = 4
    /\ steps[2] >= 1
    /\ MatchLinesOf(2)[1] = <<"0", "0", "6", "4", "\n">>
    /\ pc[3] = "loop" /\ steps[3] = 2
    /\ MatchLinesOf(3) = << <<"2", "0", "4", "8", "\n">> >>

\* C10: only results of times16 are tested: thread t's match lines are those of
\* the exponents t + 4k, k = 1 .. steps, that have only even digits; nothing is
\* printed for the seeds 1, 2, 4, 8.
C10_SeedsNeverTested ==
    \A t \in Tids :
        /\ MatchLinesOf(t) = ExpectedMatches(t, steps[t])
        /\ Applied(t) = 0 => written[t] = << >>

\* thread 1 was seeded with 0002 and has run two steps without a match line,
\* while thread 2 has printed one
C10_Witness ==
    /\ DIGITS = 4
    /\ pc[1] = "loop" /\ steps[1] = 2
    /\ MatchLinesOf(1) = << >>
    /\ Len(MatchLinesOf(2)) = 1

====
